---- MODULE Spec2Model ----
(***************************************************************************)
(* MCPT_BARS: Monte-Carlo permutation test of a mean-reversion rule on bar *)
(* data (src/MCPT_BARS/MCPT_BARS.CPP).                                     *)
(*                                                                         *)
(* Three state machines share this module:                                   *)
(*   SpecRand  the MWC256 generator (RAND32M_seed, RAND32M, unifrand)      *)
(*   Spec      main(): validation, prepare_permute, the replication loop   *)
(*             (do_permute, opt_params, the counters) and the summary      *)
(*   SpecOpt   main() with one replication, on a larger family of market   *)
(*             files: opt_params on the series as read                     *)
(*                                                                         *)
(* Numbers.  An unsigned 32-bit word is a little-endian sequence of four   *)
(* base-256 digits and a 64-bit word one of eight, so that products keep   *)
(* the width the C types give them.  Log prices are integers counted in    *)
(* units of 0.0005, the step of the drop-threshold grid, which makes the   *)
(* arithmetic of the price arrays exact.                                   *)
(***************************************************************************)
EXTENDS Integers, Sequences, FiniteSets

VARIABLES
    \* ---- generator (file-scope statics, lines 37-39 and 50)
    Q, carry, MWC256_initialized, MWC256_seed, rand_i,
    rand_out,      \* value returned by the last RAND32M call (<<>> before any)
    outs,          \* values returned since the last RAND32M_seed (or start)
    ndraws, nseeds, \* calls made so far (bounded by MaxDraws, MaxReseeds)
    \* ---- main(): command line and the market arrays
    pc,            \* position in main()
    lookback, nreps, nprices,
    open, high, low, close,      \* log prices, index 0..nprices-1
    loaded,        \* the four arrays as the read loop left them
    wild,          \* what a read outside an array returns
    \* ---- main(): permutation work area and loop state
    rel_open, rel_high, rel_low, rel_close,
    permute_calls, \* do_permute calls made
    trend_per_return,
    irep, count, original, original_nlong, original_trend_component,
    mean_training_bias,
    report,        \* the per-replication lines printed (line 486)
    summary,       \* the figures printed after the loop (lines 509-518)
    oob            \* TRUE once an index outside its array has been used

randVars == <<Q, carry, MWC256_initialized, MWC256_seed, rand_i, rand_out,
              outs, ndraws, nseeds>>

priceVars == <<open, high, low, close>>

relVars == <<rel_open, rel_high, rel_low, rel_close>>

inputVars == <<lookback, nreps, nprices, loaded, wild>>

loopVars == <<irep, count, original, original_nlong, original_trend_component,
              mean_training_bias, report>>

mainVars == <<pc, inputVars, priceVars, relVars, permute_calls,
              trend_per_return, loopVars, summary, oob>>

vars == <<randVars, mainVars>>

(***************************************************************************)
(* Fixed-width unsigned arithmetic on base-256 digit sequences             *)
(***************************************************************************)

\* digit k (1 = least significant) of x, 0 beyond its length
Digit(x, k) == IF k <= Len(x) THEN x[k] ELSE 0

\* n digits of the number whose k-th column holds cols[k], carries propagated,
\* anything beyond n digits dropped (arithmetic mod 256^n)
RECURSIVE NormFrom(_, _, _, _)
NormFrom(cols, k, c, n) ==
    IF k > n THEN <<>>
    ELSE LET v == Digit(cols, k) + c
         IN  <<v % 256>> \o NormFrom(cols, k + 1, v \div 256, n)

RECURSIVE ColSum(_, _, _, _)
ColSum(x, y, k, i) ==
    IF i > Len(x) \/ i > k THEN 0
    ELSE x[i] * Digit(y, k + 1 - i) + ColSum(x, y, k, i + 1)

\* x * y mod 256^n
MulW(x, y, n) == NormFrom([k \in 1..n |-> ColSum(x, y, k, 1)], 1, 0, n)

\* x + y mod 256^n
AddW(x, y, n) == NormFrom([k \in 1..n |-> Digit(x, k) + Digit(y, k)], 1, 0, n)

\* the 32-bit word of a natural number below 2^31
U32(v) == <<v % 256, (v \div 256) % 256, (v \div 65536) % 256,
            (v \div 16777216) % 256>>

\* x < y for digit sequences, compared as numbers
RECURSIVE LessFrom(_, _, _)
LessFrom(x, y, k) ==
    IF k = 0 THEN FALSE
    ELSE IF Digit(x, k) # Digit(y, k) THEN Digit(x, k) < Digit(y, k)
    ELSE LessFrom(x, y, k - 1)

Less(x, y) == LessFrom(x, y, IF Len(x) > Len(y) THEN Len(x) ELSE Len(y))

Leq(x, y) == ~Less(y, x)

(***************************************************************************)
(* The generator                                                           *)
(***************************************************************************)

QSize == 256            \* unsigned int Q[256]; the index is an unsigned char
CarryInit == 362436     \* static initialiser of carry
DefaultSeed == 123456789
MultA == 809430660      \* unsigned _int64 a
LcgMul == 69069
LcgAdd == 12345

UMax == <<255, 255, 255, 255>>     \* 0xFFFFFFFF

\* the values passed to RAND32M_seed: the default seed, and a seed whose second
\* output is 0xFFFFFFFF
Seeds == {DefaultSeed, 30688223}

MaxDraws == 4
MaxReseeds == 2

\* j = 69069 * j + 12345 in unsigned int
Lcg(j) == AddW(MulW(U32(LcgMul), j, 4), U32(LcgAdd), 4)

\* the n words that follow j in the recurrence (n >= 1), by halves so that
\* the evaluation stays shallow
RECURSIVE FillFrom(_, _)
FillFrom(j, n) ==
    IF n = 1 THEN <<Lcg(j)>>
    ELSE LET h == n \div 2
             a == FillFrom(j, h)
         IN  a \o FillFrom(a[h], n - h)

\* for (k=0 ; k<256 ; k++) { j = 69069 * j + 12345 ; Q[k] = j ; }
FillTable(seed) ==
    LET s == FillFrom(U32(seed), QSize) IN [k \in 0..(QSize - 1) |-> s[k + 1]]

\* the generator's state as a record
RandState == [Q |-> Q, carry |-> carry, init |-> MWC256_initialized,
              seed |-> MWC256_seed, i |-> rand_i]

\* the state at program start
RandFresh(seed) ==
    [Q |-> [k \in 0..(QSize - 1) |-> U32(0)], carry |-> U32(CarryInit),
     init |-> FALSE, seed |-> seed, i |-> QSize - 1]

\* RAND32M_seed: only the seed and the flag are assigned
SeedState(st, iseed) == [st EXCEPT !.seed = iseed, !.init = FALSE]

\* RAND32M: the state after the call, with the value returned
RAND32M(st) ==
    LET Q1 == IF st.init THEN st.Q ELSE FillTable(st.seed)
        i1 == (st.i + 1) % QSize
        t  == AddW(MulW(U32(MultA), Q1[i1], 8), st.carry, 8)
        lo == SubSeq(t, 1, 4)
        hi == SubSeq(t, 5, 8)
    IN  [Q |-> [Q1 EXCEPT ![i1] = lo], carry |-> hi, init |-> TRUE,
         seed |-> st.seed, i |-> i1, out |-> lo]

\* unifrand: mult * RAND32M() with mult = 1.0 / 0xFFFFFFFF, as the rational
\* num / den
UnifDen_Pow32 == <<0, 0, 0, 0, 1>>     \* 2^32
UnifDen == UMax
unifrand(r) == [num |-> r, den |-> UnifDen]

\* the first n values a generator started with `seed` returns
RECURSIVE OutputsFrom(_, _)
OutputsFrom(st, n) ==
    IF n = 0 THEN <<>>
    ELSE LET st2 == RAND32M(st) IN <<st2.out>> \o OutputsFrom(st2, n - 1)

FreshOutputs(seed, n) == OutputsFrom(RandFresh(seed), n)

RandAtStart ==
    /\ Q = RandFresh(DefaultSeed).Q
    /\ carry = U32(CarryInit)
    /\ MWC256_initialized = FALSE
    /\ MWC256_seed = DefaultSeed
    /\ rand_i = QSize - 1
    /\ rand_out = <<>>
    /\ outs = <<>>
    /\ ndraws = 0
    /\ nseeds = 0

\* main() before its first statement: SpecRand exercises the generator alone
MainIdle ==
    /\ pc = "start"
    /\ lookback = 0 /\ nreps = 0 /\ nprices = 0
    /\ open = <<>> /\ high = <<>> /\ low = <<>> /\ close = <<>>
    /\ loaded = <<>> /\ wild = 0
    /\ rel_open = <<>> /\ rel_high = <<>> /\ rel_low = <<>> /\ rel_close = <<>>
    /\ permute_calls = 0
    /\ trend_per_return = <<>>
    /\ irep = 0 /\ count = 0 /\ original = 0 /\ original_nlong = 0
    /\ original_trend_component = <<>> /\ mean_training_bias = <<>>
    /\ report = <<>> /\ summary = <<>>
    /\ oob = FALSE

InitRand == RandAtStart /\ MainIdle

CallSeed(iseed) ==
    /\ nseeds < MaxReseeds
    /\ LET st == SeedState(RandState, iseed)
       IN  /\ MWC256_seed' = st.seed
           /\ MWC256_initialized' = st.init
    /\ outs' = <<>>
    /\ nseeds' = nseeds + 1
    /\ UNCHANGED <<Q, carry, rand_i, rand_out, ndraws, mainVars>>

CallUnifrand ==
    /\ ndraws < MaxDraws
    /\ LET st == RAND32M(RandState)
       IN  /\ Q' = st.Q
           /\ carry' = st.carry
           /\ MWC256_initialized' = st.init
           /\ rand_i' = st.i
           /\ rand_out' = st.out
           /\ outs' = Append(outs, st.out)
    /\ ndraws' = ndraws + 1
    /\ UNCHANGED <<MWC256_seed, nseeds, mainVars>>

NextRand ==
    \/ \E s \in Seeds : CallSeed(s)
    \/ CallUnifrand

SpecRand == InitRand /\ [][NextRand]_vars

(***************************************************************************)
(* Rationals num/den for the double quantities that are quotients.  A zero *)
(* denominator is what a division by zero leaves (not a number), and it    *)
(* propagates through the arithmetic as it does in IEEE doubles.           *)
(***************************************************************************)

Rat(n, d) == [num |-> n, den |-> d]
RatSub(a, b) == Rat(a.num * b.den - b.num * a.den, a.den * b.den)
RatAdd(a, b) == Rat(a.num * b.den + b.num * a.den, a.den * b.den)
RatScale(k, a) == Rat(k * a.num, a.den)
RatDiv(a, k) == Rat(a.num, a.den * k)

(***************************************************************************)
(* opt_params                                                              *)
(***************************************************************************)

GridSize == 50          \* irise, idrop run 1..50
RiseStep == 10          \* rise_thresh = irise * 0.005, in units of 0.0005
DropStep == 1           \* drop_thresh = idrop * .0005, in units of 0.0005
BestPerfInit == -1000000000   \* stands for -1.e60: below every total return

\* arr[k]; outside the array, whatever the memory there holds
Rd(arr, k) == IF k \in DOMAIN arr THEN arr[k] ELSE wild

\* rise, drop and the next-open-to-open return of the cases i..last, in order
\* (the first element is case i)
RECURSIVE CasesFrom(_, _, _, _, _)
CasesFrom(i, last, lb, op, cl) ==
    IF i > last THEN <<>>
    ELSE <<[rise |-> Rd(cl, i) - Rd(cl, i - lb),
            drop |-> Rd(cl, i - 1) - Rd(cl, i),
            ret  |-> Rd(op, i + 2) - Rd(op, i + 1)]>>
         \o CasesFrom(i + 1, last, lb, op, cl)

Cases(ncases, lb, op, cl) == CasesFrom(lb, ncases - 3, lb, op, cl)

\* the inner loop over i for one pair of thresholds; k counts the cases done
RECURSIVE TrialFrom(_, _, _, _, _, _)
TrialFrom(cs, k, rise_thresh, drop_thresh, total_return, nl) ==
    IF k > Len(cs) THEN [total_return |-> total_return, nl |-> nl]
    ELSE IF cs[k].rise >= rise_thresh /\ cs[k].drop >= drop_thresh
         THEN TrialFrom(cs, k + 1, rise_thresh, drop_thresh,
                        total_return + cs[k].ret, nl + 1)
         ELSE TrialFrom(cs, k + 1, rise_thresh, drop_thresh,
                        total_return, nl)

Trial(cs, irise, idrop) ==
    TrialFrom(cs, 1, irise * RiseStep, idrop * DropStep, 0, 0)

\* if (total_return > best_perf)
BreaksRecord_Geq(total_return, best_perf) == total_return >= best_perf
BreaksRecord(total_return, best_perf) == total_return > best_perf

\* one pass of the idrop loop: the trial and the record test (lines 101-133)
DropPass(cs, best, irise, idrop) ==
    LET t == Trial(cs, irise, idrop)
    IN  IF BreaksRecord(t.total_return, best.best_perf)
        THEN [best_perf |-> t.total_return,
              opt_rise |-> irise * RiseStep,
              opt_drop |-> idrop * DropStep,
              nlong |-> t.nl]
        ELSE best

\* the passes idrop = lo..hi in ascending order, split in halves so that the
\* evaluation stays shallow; the test b = b has the first half evaluated
\* before the second starts
RECURSIVE DropLoop(_, _, _, _, _)
DropLoop(cs, best, irise, lo, hi) ==
    IF lo = hi THEN DropPass(cs, best, irise, lo)
    ELSE LET mid == (lo + hi) \div 2
             b == DropLoop(cs, best, irise, lo, mid)
         IN  IF b = b THEN DropLoop(cs, b, irise, mid + 1, hi)
             ELSE b

\* the passes irise = lo..hi in ascending order
RECURSIVE RiseLoop(_, _, _, _)
RiseLoop(cs, best, lo, hi) ==
    IF lo = hi THEN DropLoop(cs, best, lo, 1, GridSize)
    ELSE LET mid == (lo + hi) \div 2
             b == RiseLoop(cs, best, lo, mid)
         IN  IF b = b THEN RiseLoop(cs, b, mid + 1, hi)
             ELSE b

\* the value returned and the three results stored through the pointers
\* (the caller's locals are unset until the first trial stores them)
opt_params(ncases, lb, op, cl) ==
    RiseLoop(Cases(ncases, lb, op, cl),
             [best_perf |-> BestPerfInit, opt_rise |-> 0, opt_drop |-> 0,
              nlong |-> 0], 1, GridSize)

\* the indices opt_params uses into close and into open
OptCloseIndices(ncases, lb) ==
    UNION {{i, i - lb, i - 1} : i \in lb..(ncases - 3)}

OptOpenIndices(ncases, lb, cl) ==
    UNION {{i + 1, i + 2} :
           i \in {k \in lb..(ncases - 3) :
                     /\ Rd(cl, k) - Rd(cl, k - lb) >= RiseStep
                     /\ Rd(cl, k - 1) - Rd(cl, k) >= DropStep}}

(***************************************************************************)
(* prepare_permute and do_permute                                          *)
(***************************************************************************)

PreserveArg == 1        \* main passes preserve_OO = 1

\* if (preserve_OO) preserve_OO = 1
Preserve == IF PreserveArg # 0 THEN 1 ELSE 0

\* the nc cases that start at arr + lb
Window(arr, lb, nc) == [k \in 0..(nc - 1) |-> Rd(arr, k + lb)]

prepare_permute(nc, op, hi, lo, cl) ==
    [rel_open  |-> [k \in 0..(nc - 2) |-> op[k + 1] - cl[k]],
     rel_high  |-> [k \in 0..(nc - 2) |-> hi[k + 1] - op[k + 1]],
     rel_low   |-> [k \in 0..(nc - 2) |-> lo[k + 1] - op[k + 1]],
     rel_close |-> [k \in 0..(nc - 2) |-> cl[k + 1] - op[k + 1]]]

\* i = nc-1-preserve_OO, before each of the two shuffles
OpenCount(nc, p) == nc - 1 - p
BarCount_All(nc, p) == nc - 1
BarCount(nc, p) == nc - 1 - p

\* dtemp = a[i] ; a[i] = a[j] ; a[j] = dtemp
Swap_NoTemp(arr, a, b) == [arr EXCEPT ![a] = arr[b]]
Swap(arr, a, b) == [arr EXCEPT ![a] = arr[b], ![b] = arr[a]]

\* the three swaps of the second shuffle, all with the same i and j
SwapBars_CloseOnly(rh, rl, rc, a, b) ==
    [rel_high |-> rh, rel_low |-> rl, rel_close |-> Swap(rc, a, b)]
SwapBars(rh, rl, rc, a, b) ==
    [rel_high |-> Swap(rh, a, b), rel_low |-> Swap(rl, a, b),
     rel_close |-> Swap(rc, a, b)]

\* 32-bit values RAND32M may return: sixteen spread evenly over the range, and
\* the largest
RandSamples == {<<0, 0, 0, 16 * k>> : k \in 0..15} \cup {UMax}

\* (int) (unifrand() * i): the k with k <= num*i/den < k+1
JDraw(r, i) ==
    LET u  == unifrand(r)
        ui == MulW(u.num, U32(i), 5)
    IN  CHOOSE k \in 0..i :
            /\ Leq(MulW(u.den, U32(k), 5), ui)
            /\ Less(ui, MulW(u.den, U32(k + 1), 5))

\* if (j >= i) j = i - 1
Clamp(j, i) == IF j >= i THEN i - 1 ELSE j

\* the values j can take in one pass of a shuffle loop, tabulated for the
\* counts i that occur
MaxCount == 16
DrawTable == [i \in 1..MaxCount |-> {Clamp(JDraw(r, i), i) : r \in RandSamples}]
Draws(i) == DrawTable[i]

\* The first while loop (lines 205-213) from i down, on every array in S and
\* for every value the draws can take: the set of arrays it can leave
RECURSIVE ShuffleOpenLoop(_, _, _)
ShuffleOpenLoop(S, i, p) ==
    IF ~(i > 1) THEN S
    ELSE ShuffleOpenLoop({Swap(ro, (i - 1) + p, j + p) :
                             ro \in S, j \in Draws(i)}, i - 1, p)

\* The second while loop (lines 218-232), likewise, on the three arrays
RECURSIVE ShuffleBarsLoop(_, _)
ShuffleBarsLoop(S, i) ==
    IF ~(i > 1) THEN S
    ELSE ShuffleBarsLoop({SwapBars(b.rel_high, b.rel_low, b.rel_close,
                                   i - 1, j) : b \in S, j \in Draws(i)},
                         i - 1)

\* the indices the two loops use into the relative-move arrays
ShuffleIndices(n, p) ==
    UNION {{(i - 1) + p} \cup {j + p : j \in Draws(i)} :
           i \in 2..OpenCount(n, p)}
    \cup UNION {{i - 1} \cup Draws(i) : i \in 2..BarCount(n, p)}

\* close[k] of the rebuilt window
RECURSIVE RebuiltClose(_, _, _, _)
RebuiltClose(k, cl0, ro, rc) ==
    IF k = 0 THEN cl0
    ELSE RebuiltClose(k - 1, cl0, ro, rc) + ro[k - 1] + rc[k - 1]

\* the loop at the end of do_permute; case 0 is not written
Rebuild_CloseFromClose(nc, win, ro, rh, rl, rc) ==
    LET cl == [k \in 0..(nc - 1) |->
                  RebuiltClose(k, win.close[0], [x \in DOMAIN ro |-> 0], rc)]
        op == [k \in 0..(nc - 1) |->
                  IF k = 0 THEN win.open[0] ELSE cl[k - 1] + ro[k - 1]]
    IN  [open  |-> op,
         high  |-> [k \in 0..(nc - 1) |->
                      IF k = 0 THEN win.high[0] ELSE op[k] + rh[k - 1]],
         low   |-> [k \in 0..(nc - 1) |->
                      IF k = 0 THEN win.low[0] ELSE op[k] + rl[k - 1]],
         close |-> cl]
Rebuild(nc, win, ro, rh, rl, rc) ==
    LET cl == [k \in 0..(nc - 1) |-> RebuiltClose(k, win.close[0], ro, rc)]
        op == [k \in 0..(nc - 1) |->
                  IF k = 0 THEN win.open[0] ELSE cl[k - 1] + ro[k - 1]]
    IN  [open  |-> op,
         high  |-> [k \in 0..(nc - 1) |->
                      IF k = 0 THEN win.high[0] ELSE op[k] + rh[k - 1]],
         low   |-> [k \in 0..(nc - 1) |->
                      IF k = 0 THEN win.low[0] ELSE op[k] + rl[k - 1]],
         close |-> cl]

\* do_permute (lines 183-242) on the window win with preserve_OO = p: every
\* outcome the draws allow, as the four shuffled arrays and the rebuilt window
do_permute(n, p, win, ro, rh, rl, rc) ==
    {[rel_open |-> o, rel_high |-> b.rel_high, rel_low |-> b.rel_low,
      rel_close |-> b.rel_close,
      win |-> Rebuild(n, win, o, b.rel_high, b.rel_low, b.rel_close)] :
        o \in ShuffleOpenLoop({ro}, OpenCount(n, p), p),
        b \in ShuffleBarsLoop({[rel_high |-> rh, rel_low |-> rl,
                                rel_close |-> rc]}, BarCount(n, p))}

\* the array with the window that starts at lb replaced
PutWindow(arr, lb, win) ==
    [k \in DOMAIN arr |->
        IF k - lb \in DOMAIN win THEN win[k - lb] ELSE arr[k]]

(***************************************************************************)
(* main()                                                                  *)
(***************************************************************************)

MinWindow == 10         \* if (nprices - lookback < 10) ... exit
MaxReps == 3
WildValues == {-7, 4}

\* Market files, as the read loop leaves them: a first bar and, for each later
\* bar, its gap from the previous close and its high, low and close from its
\* own open.  Every bar passes the open/high/low/close check of lines 423-424.
Dn == [g |-> 0, h |-> 0, l |-> -3, c |-> -2]
Up == [g |-> 0, h |-> 13, l |-> 0, c |-> 12]
Gp == [g |-> 5, h |-> 0, l |-> -3, c |-> -2]
St == [g |-> 18, h |-> 3, l |-> -1, c |-> 2]
Up3 == [g |-> 0, h |-> 33, l |-> 0, c |-> 32]
Dn4 == [g |-> 0, h |-> 0, l |-> -5, c |-> -4]
Gn == [g |-> -6, h |-> 0, l |-> -3, c |-> -2]

FirstBar == [open |-> 100, high |-> 103, low |-> 99, close |-> 101]

RECURSIVE FileClose(_, _, _)
FileClose(first, moves, k) ==
    IF k = 0 THEN first.close
    ELSE FileClose(first, moves, k - 1) + moves[k].g + moves[k].c

MarketFile(first, moves) ==
    LET n  == Len(moves) + 1
        op == [k \in 0..(n - 1) |->
                  IF k = 0 THEN first.open
                  ELSE FileClose(first, moves, k - 1) + moves[k].g]
    IN  [open  |-> op,
         high  |-> [k \in 0..(n - 1) |->
                      IF k = 0 THEN first.high ELSE op[k] + moves[k].h],
         low   |-> [k \in 0..(n - 1) |->
                      IF k = 0 THEN first.low ELSE op[k] + moves[k].l],
         close |-> [k \in 0..(n - 1) |-> FileClose(first, moves, k)]]

\* twelve bars, one up bar followed by a gap
FileA == MarketFile(FirstBar, <<Dn, Dn, Dn, Up, Dn, Dn, Gp, Dn, Dn, Dn, Dn>>)
\* twelve bars, a steady uptrend: the close never drops
FileB == MarketFile(FirstBar, <<St, St, St, St, St, St, St, St, St, St, St>>)
\* eleven bars
FileC == MarketFile(FirstBar, <<Dn, Up, Dn, Gp, Dn, Dn, Dn, Dn, Dn, Dn>>)

\* the command lines tried: a market file and argv[1]
Runs ==
    { [file |-> FileA, lookback |-> 2],
      [file |-> FileB, lookback |-> 0],
      [file |-> FileB, lookback |-> 2],
      [file |-> FileC, lookback |-> 1],
      [file |-> FileC, lookback |-> 2] }

\* the files and lookbacks on which the optimizer alone is exercised: thirteen
\* bars, three of them varying over four kinds of move
OptMoves == {Dn, Up3, Dn4, Gn}

OptFiles ==
    {MarketFile(FirstBar, <<Dn, Up3, Dn4, a, b, c, Up, Dn, Gp, Dn, Dn, Dn>>) :
        a \in OptMoves, b \in OptMoves, c \in OptMoves}

OptRuns == {[file |-> f, lookback |-> lb] : f \in OptFiles, lb \in 1..3}

\* the check of lines 423-424 on bar k
BarOK(op, hi, lo, cl, k) ==
    ~(lo[k] > op[k] \/ lo[k] > cl[k] \/ hi[k] < op[k] \/ hi[k] < cl[k])

nc == nprices - lookback

\* main() once the command line is parsed and the market file is read
Start(runs, reps) ==
    /\ RandAtStart
    /\ pc = "loaded"
    /\ \E run \in runs : loaded = run.file /\ lookback = run.lookback
    /\ nreps \in reps
    /\ \A k \in DOMAIN loaded.open :
          BarOK(loaded.open, loaded.high, loaded.low, loaded.close, k)
    /\ open = loaded.open /\ high = loaded.high
    /\ low = loaded.low /\ close = loaded.close
    /\ nprices = Cardinality(DOMAIN loaded.open)
    /\ wild \in (IF lookback < 1 THEN WildValues ELSE {0})
    /\ rel_open = <<>> /\ rel_high = <<>> /\ rel_low = <<>> /\ rel_close = <<>>
    /\ permute_calls = 0
    /\ trend_per_return = <<>>
    \* locals of main not yet assigned; each is assigned before it is read
    /\ irep = 0 /\ count = 0 /\ original = 0 /\ original_nlong = 0
    /\ original_trend_component = <<>> /\ mean_training_bias = <<>>
    /\ report = <<>> /\ summary = <<>>
    /\ oob = FALSE

Init == Start(Runs, 1..MaxReps)

\* a single replication: the optimizer on the series as read
InitOpt == Start(OptRuns, {1})

\* lines 449-452
Validate ==
    /\ pc = "loaded"
    /\ pc' = IF nprices - lookback < MinWindow THEN "exit" ELSE "prepare"
    /\ UNCHANGED <<randVars, inputVars, priceVars, relVars, permute_calls,
                   trend_per_return, loopVars, summary, oob>>

\* lines 469-472 and the loop's irep=0
Prepare ==
    /\ pc = "prepare"
    /\ trend_per_return' =
          Rat(Rd(open, nprices - 1) - Rd(open, lookback + 1),
              nprices - lookback - 2)
    /\ LET rel == prepare_permute(nc, Window(open, lookback, nc),
                                  Window(high, lookback, nc),
                                  Window(low, lookback, nc),
                                  Window(close, lookback, nc))
       IN  /\ rel_open' = rel.rel_open
           /\ rel_high' = rel.rel_high
           /\ rel_low' = rel.rel_low
           /\ rel_close' = rel.rel_close
    /\ oob' = (oob \/ ~({nprices - 1, lookback + 1} \subseteq DOMAIN open)
                   \/ ~(lookback..(nprices - 1) \subseteq DOMAIN open))
    /\ irep' = 0
    /\ pc' = "for"
    /\ UNCHANGED <<randVars, inputVars, priceVars, permute_calls,
                   count, original, original_nlong, original_trend_component,
                   mean_training_bias, report, summary>>

\* the loop test irep<nreps and the test if (irep)
ForTest ==
    /\ pc = "for"
    /\ pc' = IF irep < nreps
             THEN (IF irep # 0 THEN "permute" ELSE "score")
             ELSE "summary"
    /\ UNCHANGED <<randVars, inputVars, priceVars, relVars, permute_calls,
                   trend_per_return, loopVars, summary, oob>>

\* the call of do_permute on the window that starts at lookback (line 481)
DoPermute ==
    /\ pc = "permute"
    /\ \E out \in do_permute(nc, Preserve,
                             [open  |-> Window(open, lookback, nc),
                              high  |-> Window(high, lookback, nc),
                              low   |-> Window(low, lookback, nc),
                              close |-> Window(close, lookback, nc)],
                             rel_open, rel_high, rel_low, rel_close) :
          /\ rel_open' = out.rel_open
          /\ rel_high' = out.rel_high
          /\ rel_low' = out.rel_low
          /\ rel_close' = out.rel_close
          /\ open' = PutWindow(open, lookback, out.win.open)
          /\ high' = PutWindow(high, lookback, out.win.high)
          /\ low' = PutWindow(low, lookback, out.win.low)
          /\ close' = PutWindow(close, lookback, out.win.close)
    /\ \E used \in {ShuffleIndices(nc, Preserve)} :
          oob' = (oob \/ ~(used \subseteq 0..(nc - 2))
                      \/ ~(lookback..(nprices - 1) \subseteq DOMAIN open))
    /\ permute_calls' = permute_calls + 1
    /\ pc' = "score"
    /\ UNCHANGED <<randVars, inputVars, trend_per_return, loopVars, summary>>

\* if (opt_return >= original)
AtLeastAsGood_Strict(opt_return, orig) == opt_return > orig
AtLeastAsGood(opt_return, orig) == opt_return >= orig

\* lines 484-503 and the loop's irep++
Score ==
    /\ pc = "score"
    /\ \E res \in {opt_params(nprices, lookback, open, close)} :
       LET opt_return == res.best_perf
           trend_component == RatScale(res.nlong, trend_per_return)
           training_bias == RatSub(Rat(opt_return, 1), trend_component)
       IN  /\ report' = Append(report,
                 [irep |-> irep, ret |-> opt_return, rise |-> res.opt_rise,
                  drop |-> res.opt_drop, nl |-> res.nlong,
                  trend_component |-> trend_component,
                  training_bias |-> training_bias])
           /\ IF irep = 0
              THEN /\ original' = opt_return
                   /\ original_trend_component' = trend_component
                   /\ original_nlong' = res.nlong
                   /\ count' = 1
                   /\ mean_training_bias' = Rat(0, 1)
              ELSE /\ mean_training_bias' =
                         RatAdd(mean_training_bias, training_bias)
                   /\ count' = IF AtLeastAsGood(opt_return, original)
                               THEN count + 1 ELSE count
                   /\ UNCHANGED <<original, original_trend_component,
                                  original_nlong>>
    /\ oob' = (oob \/ ~(OptCloseIndices(nprices, lookback) \subseteq DOMAIN close)
                   \/ ~(OptOpenIndices(nprices, lookback, close)
                          \subseteq DOMAIN open))
    /\ irep' = irep + 1
    /\ pc' = "for"
    /\ UNCHANGED <<randVars, inputVars, priceVars, relVars, permute_calls,
                   trend_per_return, summary>>

\* lines 505-518
Summarize ==
    /\ pc = "summary"
    /\ LET mtb == RatDiv(mean_training_bias, nreps - 1)
           unbiased_return == RatSub(Rat(original, 1), mtb)
           skill == RatSub(unbiased_return, original_trend_component)
       IN  /\ mean_training_bias' = mtb
           /\ summary' = [nprices |-> nprices, nreps |-> nreps,
                          lookback |-> lookback,
                          pvalue |-> Rat(count, nreps),
                          total_trend |->
                              Rd(open, nprices - 1) - Rd(open, lookback + 1),
                          original_nlong |-> original_nlong,
                          original |-> original,
                          trend_component |-> original_trend_component,
                          training_bias |-> mtb,
                          skill |-> skill,
                          unbiased_return |-> unbiased_return]
    /\ pc' = "done"
    /\ UNCHANGED <<randVars, inputVars, priceVars, relVars, permute_calls,
                   trend_per_return, irep, count, original,
                   original_nlong, original_trend_component, report, oob>>

Next ==
    \/ Validate
    \/ Prepare
    \/ ForTest
    \/ DoPermute
    \/ Score
    \/ Summarize

Spec == Init /\ [][Next]_vars

\* with one replication the loop never reaches do_permute
NextOpt ==
    \/ Validate
    \/ Prepare
    \/ ForTest
    \/ Score
    \/ Summarize

SpecOpt == InitOpt /\ [][NextOpt]_vars

(***************************************************************************)
(* Properties                                                              *)
(***************************************************************************)

\* main() is past prepare_permute
Prepared == pc \notin {"start", "loaded", "exit", "prepare"}

\* the relative moves of the window of the series as read
LoadedRel ==
    prepare_permute(nc, Window(loaded.open, lookback, nc),
                        Window(loaded.high, lookback, nc),
                        Window(loaded.low, lookback, nc),
                        Window(loaded.close, lookback, nc))

\* the number of places of arr that hold v
Occurrences(arr, v) == Cardinality({k \in DOMAIN arr : arr[k] = v})

\* a and b hold the same values the same number of times
SameBag(a, b) ==
    /\ DOMAIN a = DOMAIN b
    /\ \A v \in {a[k] : k \in DOMAIN a} \cup {b[k] : k \in DOMAIN b} :
          Occurrences(a, v) = Occurrences(b, v)

\* C1: once prepare_permute has decomposed the window, any number of
\* do_permute calls (preserve_OO = 1) leave the open and the close of the
\* window's first bar and the close of its last bar equal to the values read,
\* whatever the draws.
C1_WindowEndsKept ==
    Prepared =>
        /\ open[lookback] = loaded.open[lookback]
        /\ close[lookback] = loaded.close[lookback]
        /\ close[nprices - 1] = loaded.close[nprices - 1]

\* two permutations done, and the series is no longer the one read
C1_PermutedTwice ==
    /\ permute_calls >= 2
    /\ open # loaded.open
    /\ close # loaded.close

\* C2: do_permute only reorders the relative moves: after any number of calls
\* rel_open, and separately rel_high, rel_low and rel_close, over 0..nc-2 hold
\* the values prepare_permute produced, each as many times.
C2_MovesOnlyReordered ==
    Prepared =>
        /\ DOMAIN rel_open = 0..(nc - 2)
        /\ SameBag(rel_open, LoadedRel.rel_open)
        /\ SameBag(rel_high, LoadedRel.rel_high)
        /\ SameBag(rel_low, LoadedRel.rel_low)
        /\ SameBag(rel_close, LoadedRel.rel_close)

\* two permutations done, and both shuffles have changed the order
C2_OrderChanged ==
    /\ permute_calls >= 2
    /\ rel_open # LoadedRel.rel_open
    /\ rel_close # LoadedRel.rel_close
    /\ rel_high # LoadedRel.rel_high

\* C3: a run with nreps = 1 makes no do_permute call and does not divide by
\* zero when it computes the mean training bias.
C3_SingleReplication ==
    (pc = "done" /\ nreps = 1) =>
        /\ permute_calls = 0
        /\ mean_training_bias.den # 0

\* C4: after RAND32M_seed(s), whatever was drawn before, the values RAND32M
\* returns are those a generator started with seed s returns on first use.
C4_ReseedRestarts == outs = FreshOutputs(MWC256_seed, Len(outs))

\* C5: after the loop, 1 <= count <= nreps, count is 1 plus the number of
\* permuted replications whose return is at least the first replication's,
\* and the p-value printed is count/nreps, in (0, 1].
C5_CountAndPValue ==
    pc \in {"summary", "done"} =>
        /\ 1 <= count /\ count <= nreps
        /\ Len(report) = nreps
        /\ count = 1 + Cardinality({r \in 2..nreps :
                                       report[r].ret >= report[1].ret})
        /\ pc = "done" =>
              /\ summary.pvalue = Rat(count, nreps)
              /\ 0 < summary.pvalue.num
              /\ summary.pvalue.num <= summary.pvalue.den

\* the run is over; one permuted replication did at least as well as the
\* first, and one did worse
C5_MixedReplications ==
    /\ pc = "done"
    /\ 1 < count
    /\ count < nreps

\* the trials of all the pairs of thresholds on the arrays as they are
AllTrials ==
    LET cs == Cases(nprices, lookback, open, close)
    IN  {[irise |-> a, idrop |-> b, t |-> Trial(cs, a, b)] :
            a \in 1..GridSize, b \in 1..GridSize}

\* the line printed for the replication just scored
LastLine == report[Len(report)]

\* C6: opt_params returns the largest total return of the 50 x 50 pairs, and
\* the rise, drop and nlong it stores are those of the first pair that reaches
\* it: the smallest rise threshold and, for that rise, the smallest drop
\* threshold.  When no pair gives a signal it stores the first pair, nlong 0
\* and returns 0.
C6_FirstBestPair ==
    (pc = "for" /\ Len(report) > 0) =>
        \E trials \in {AllTrials} :
            /\ \A x \in trials : x.t.total_return <= LastLine.ret
            /\ \E x \in trials :
                  /\ x.irise * RiseStep = LastLine.rise
                  /\ x.idrop * DropStep = LastLine.drop
                  /\ x.t.total_return = LastLine.ret
                  /\ x.t.nl = LastLine.nl
            /\ \A x \in trials :
                  x.t.total_return = LastLine.ret =>
                      \/ LastLine.rise < x.irise * RiseStep
                      \/ /\ LastLine.rise = x.irise * RiseStep
                         /\ LastLine.drop <= x.idrop * DropStep
            /\ (\A x \in trials : x.t.nl = 0) =>
                  /\ LastLine.rise = RiseStep
                  /\ LastLine.drop = DropStep
                  /\ LastLine.nl = 0
                  /\ LastLine.ret = 0

\* a replication scored whose best pair is not in the first row of the grid,
\* with trades
C6_BestInLaterRow ==
    /\ pc = "for"
    /\ Len(report) > 0
    /\ LastLine.rise > RiseStep
    /\ LastLine.nl > 0

\* C7: with preserve_OO = 1 do_permute leaves rel_open[0] and the last bar's
\* rel_high, rel_low and rel_close (index nc-2) in place, so the open of the
\* window's second bar and the open of its last bar stay as read, and the total
\* trend printed equals the one of the series as read.
C7_TrendKept ==
    Prepared =>
        /\ rel_open[0] = LoadedRel.rel_open[0]
        /\ rel_high[nc - 2] = LoadedRel.rel_high[nc - 2]
        /\ rel_low[nc - 2] = LoadedRel.rel_low[nc - 2]
        /\ rel_close[nc - 2] = LoadedRel.rel_close[nc - 2]
        /\ open[lookback + 1] = loaded.open[lookback + 1]
        /\ open[nprices - 1] = loaded.open[nprices - 1]
        /\ pc = "done" =>
              summary.total_trend =
                  loaded.open[nprices - 1] - loaded.open[lookback + 1]

\* the summary is printed after two permutations that moved the bars
C7_SummaryAfterPermuting ==
    /\ pc = "done"
    /\ permute_calls >= 2
    /\ rel_close # LoadedRel.rel_close
    /\ open # loaded.open

\* the value unifrand returned last
LastUnif == unifrand(rand_out)

C9_BarsStayOrdered ==
    \A k \in DOMAIN open : BarOK(open, high, low, close, k)

\* two permutations done, and highs and lows have moved
C9_HighsLowsMoved ==
    /\ permute_calls >= 2
    /\ high # loaded.high
    /\ low # loaded.low

\* C10: in a run that passes the test nprices - lookback >= 10, every index
\* opt_params, prepare_permute and do_permute use lies inside its array.
C10_IndicesInRange ==
    (nprices - lookback >= MinWindow) => ~oob

====
